---------------------------- MODULE Spec2Model ----------------------------
(***************************************************************************)
(* Model of the custodian service: the document store gateway              *)
(* (app/db/mongodb.py), the event publisher (app/services/kafka_service.py *)
(* and app/db/kafka.py), the process lifecycle (main.py), the domain       *)
(* service (app/services/custodian_service.py) and the HTTP endpoints      *)
(* (app/api/v1/endpoints/custodian.py).                                    *)
(*                                                                         *)
(* Every coroutine is cut at its await points: one action is the code that *)
(* runs between two awaits on the single event loop, so the actions of     *)
(* different requests interleave exactly where asyncio lets them.          *)
(***************************************************************************)
EXTENDS Integers, Sequences, FiniteSets, TLC

(***************************************************************************)
(* Bounds of the model.                                                    *)
(***************************************************************************)
\* largest max_retries a direct caller of connect_to_mongodb passes
MaxRetries == 3
\* identifiers the store hands out per collection before inserts are refused
MaxDocs == 2
\* largest reading of the wall clock (datetime.utcnow)
MaxClock == 2
\* requests a run accepts
MaxRequests == 2

(***************************************************************************)
(* Program constants.                                                      *)
(***************************************************************************)
\* connect_to_mongodb(max_retries=5, ...)
DefaultMaxRetries == 5

\* account_id / portfolio_id query parameters: absent, empty, an identifier
AccountArgs == {"None", "", "a"}
PortfolioArgs == {"None", "b"}
\* the account and portfolio identifiers stored transactions carry
AccountIds == {"a", "b"}
PortfolioIds == {"a", "b"}

\* request slots: requests in flight at the same time
Reqs == {"r1", "r2"}
\* the slot of a process that answers one request at a time
Serial == {"r1"}
\* the five collection handles published by connect_to_mongodb
CollNames == {"custodians", "portfolios", "accounts", "positions", "transactions"}
\* outcomes of client.admin.command('ping'): success, one of the two caught
\* connection errors, any other exception
PingOutcomes == {"ok", "connfail", "other"}

\* KafkaService objects the process can construct
Pubs == {"p1", "p2"}
\* callers of the publisher module: the lifecycle handlers of main.py and one
\* other task (a dependency resolution, a direct user of the class)
KCallers == {"main", "k1"}
\* outcomes of an awaited broker operation (producer.start, producer.stop,
\* send_and_wait): it completes or it raises
IoOutcomes == {"ok", "fail"}
\* the change-sets update requests carry
UpdChoices == {{}, {"name"}, {"description", "contact_info"}}
\* the change-sets and values of updates that race on one record: some
\* fields are supplied by both, some by one only
RaceChoices == {{"name"}, {"name", "description"}, {"description", "contact_info"}}
RaceVals == {"b", "c"}

VARIABLES
    KAFKA_ENABLED,   \* settings.KAFKA_ENABLED
    phase,           \* lifecycle of the process (main.py)
    client,          \* app.db.mongodb.client
    database,        \* app.db.mongodb.database
    collections,     \* the module-level collection handles that are set
    conn,            \* the running (or last) connect_to_mongodb call
    producer,        \* KafkaService.producer of every publisher object
    kafka_service,   \* app.db.kafka.kafka_service, the shared publisher
    kcall,           \* the running (or last) publisher call of every caller
    custodians,      \* the custodians collection: identifier -> document
    custNext,        \* the next identifier the custodians collection assigns
    transactions,    \* the transactions collection: identifier -> document
    txNext,          \* the next identifier the transactions collection assigns
    now,             \* the last reading of datetime.utcnow()
    accepted,        \* the number of requests accepted so far
    req              \* the requests in flight, one record per slot

mongoVars == <<client, database, collections, conn>>

kafkaVars == <<producer, kafka_service, kcall>>

storeVars == <<custodians, custNext, transactions, txNext, now>>

vars == <<KAFKA_ENABLED, phase, mongoVars, kafkaVars, storeVars, accepted, req>>

(***************************************************************************)
(* Document store gateway: app/db/mongodb.py                               *)
(***************************************************************************)
ConnIdle ==
    [owner |-> "none", max_retries |-> 0, attempt |-> 0, fails |-> 0,
     status |-> "idle", err |-> "none"]

\* no connect_to_mongodb call is between its first and its last ping
ConnQuiet == conn.status \in {"idle", "returned", "raised"}

\* connect_to_mongodb up to its first await: range(1, max_retries + 1) is
\* empty for max_retries < 1 and the call returns at once; otherwise attempt
\* 1 constructs the client and awaits the ping.
ConnectCall(o, m) ==
    IF m < 1
    THEN /\ conn' = [owner |-> o, max_retries |-> m, attempt |-> 0, fails |-> 0,
                     status |-> "returned", err |-> "none"]
         /\ UNCHANGED <<client, database, collections>>
    ELSE /\ conn' = [owner |-> o, max_retries |-> m, attempt |-> 1, fails |-> 0,
                     status |-> "ping", err |-> "none"]
         /\ client' = "obj"
         /\ UNCHANGED <<database, collections>>

\* the loop's test after a caught connection error: another attempt follows
RetryAfterFailureOffByOne(attempt, max_retries) == attempt <= max_retries

RetryAfterFailure(attempt, max_retries) == attempt < max_retries

\* connect_to_mongodb from the return of one ping to the next await or to
\* the end of the call.
ConnectStep(o) ==
    /\ conn.owner = o
    /\ conn.status = "ping"
    /\ \E res \in PingOutcomes :
          \/ /\ res = "ok"
             /\ database' = "db"
             /\ collections' = CollNames
             /\ conn' = [conn EXCEPT !.status = "returned"]
             /\ UNCHANGED client
          \/ /\ res = "connfail"
             /\ IF RetryAfterFailure(conn.attempt, conn.max_retries)
                THEN /\ conn' = [conn EXCEPT !.attempt = @ + 1, !.fails = @ + 1]
                     /\ client' = "obj"
                ELSE /\ conn' = [conn EXCEPT !.fails = @ + 1,
                                             !.status = "raised",
                                             !.err = "connfail"]
                     /\ UNCHANGED client
             /\ UNCHANGED <<database, collections>>
          \/ /\ res = "other"
             /\ conn' = [conn EXCEPT !.status = "raised", !.err = "other"]
             /\ UNCHANGED <<client, database, collections>>

(***************************************************************************)
(* Event publisher: app/services/kafka_service.py                          *)
(*                                                                         *)
(* producer[p] is the publisher's producer field: "free" while the object  *)
(* p is not constructed, "None", "unstarted" (an AIOKafkaProducer that is  *)
(* not running: its start() has not completed, or failed, or its stop()    *)
(* failed part-way) or "started".                                          *)
(***************************************************************************)
KIdle ==
    [fn |-> "none", pc |-> "idle", pub |-> "None", pre |-> "None",
     outcome |-> "none", value |-> "None"]

KAwaiting == {"await_start", "await_stop"}

\* caller c is not inside a publisher call
KFree(c) == kcall[c].pc \notin KAwaiting

\* some call on publisher p is suspended in producer.start() or producer.stop()
KBusy(p) == \E c \in KCallers : kcall[c].pc \in KAwaiting /\ kcall[c].pub = p

KDone(fn, p, pre, outcome, value) ==
    [fn |-> fn, pc |-> "done", pub |-> p, pre |-> pre,
     outcome |-> outcome, value |-> value]

KWait(fn, pc, p, pre) ==
    [fn |-> fn, pc |-> pc, pub |-> p, pre |-> pre,
     outcome |-> "none", value |-> "None"]

\* KafkaService.__init__
KConstruct(p) ==
    /\ producer[p] = "free"
    /\ producer' = [producer EXCEPT ![p] = "None"]
    /\ UNCHANGED <<kafka_service, kcall>>

\* KafkaService.start up to its await: a publisher without a producer
\* constructs one and awaits its start(); any other publisher returns at once.
KStartCall(c, p) ==
    /\ KFree(c)
    /\ producer[p] # "free"
    /\ ~KBusy(p)
    /\ IF producer[p] = "None"
       THEN /\ producer' = [producer EXCEPT ![p] = "unstarted"]
            /\ kcall' = [kcall EXCEPT ![c] = KWait("start", "await_start", p, "None")]
       ELSE /\ kcall' = [kcall EXCEPT ![c] =
                            KDone("start", p, producer[p], "returned", "None")]
            /\ UNCHANGED producer
    /\ UNCHANGED kafka_service

\* KafkaService.start after producer.start(): success, or the exception is
\* logged and raised again with the producer field left as it is.
KStartReturn(c) ==
    /\ kcall[c].fn = "start"
    /\ kcall[c].pc = "await_start"
    /\ \E res \in IoOutcomes :
          LET p == kcall[c].pub IN
          IF res = "ok"
          THEN /\ producer' = [producer EXCEPT ![p] = "started"]
               /\ kcall' = [kcall EXCEPT ![c] = KDone("start", p, "None", "returned", "None")]
          ELSE /\ kcall' = [kcall EXCEPT ![c] = KDone("start", p, "None", "raised", "None")]
               /\ UNCHANGED producer
    /\ UNCHANGED kafka_service

\* KafkaService.stop up to its await
KStopCall(c, p) ==
    /\ KFree(c)
    /\ producer[p] # "free"
    /\ ~KBusy(p)
    /\ IF producer[p] # "None"
       THEN kcall' = [kcall EXCEPT ![c] = KWait("stop", "await_stop", p, producer[p])]
       ELSE kcall' = [kcall EXCEPT ![c] = KDone("stop", p, "None", "returned", "None")]
    /\ UNCHANGED <<producer, kafka_service>>

\* a variant of stop() that forgets to reset the field
StoppedKeepsProducer(pre) == pre

\* the producer field after producer.stop() completed: "self.producer = None"
Stopped(pre) == "None"

\* KafkaService.stop after producer.stop(): success resets the field; on an
\* exception the field keeps the producer, running or not.
KStopReturn(c) ==
    /\ kcall[c].fn = "stop"
    /\ kcall[c].pc = "await_stop"
    /\ \E res \in IoOutcomes :
          LET p == kcall[c].pub IN
          IF res = "ok"
          THEN /\ producer' = [producer EXCEPT ![p] = Stopped(kcall[c].pre)]
               /\ kcall' = [kcall EXCEPT ![c] =
                               KDone("stop", p, kcall[c].pre, "returned", "None")]
          ELSE /\ \E left \in {kcall[c].pre, "unstarted"} :
                     producer' = [producer EXCEPT ![p] = left]
               /\ kcall' = [kcall EXCEPT ![c] =
                               KDone("stop", p, kcall[c].pre, "raised", "None")]
    /\ UNCHANGED kafka_service

\* a variant of produce_event that lets the send's exception out
ProduceResultReraise(prod, keyOk, sendRes) ==
    IF prod = "None" THEN [outcome |-> "returned", delivered |-> FALSE]
    ELSE IF keyOk /\ prod = "started" /\ sendRes = "ok"
         THEN [outcome |-> "returned", delivered |-> TRUE]
         ELSE [outcome |-> "raised", delivered |-> FALSE]

\* KafkaService.produce_event on a publisher whose producer field is prod:
\* whether the call returns or raises, and whether the broker got the event.
\* keyOk: key.encode('utf-8') works (the key is a str or absent); sendRes: the
\* outcome of send_and_wait on a running producer (serialization, broker and
\* timeout errors are "fail"); a producer that is not running cannot send.
ProduceResult(prod, keyOk, sendRes) ==
    IF prod = "None" THEN [outcome |-> "returned", delivered |-> FALSE]
    ELSE IF keyOk /\ prod = "started" /\ sendRes = "ok"
         THEN [outcome |-> "returned", delivered |-> TRUE]
         ELSE [outcome |-> "returned", delivered |-> FALSE]

\* KafkaService.produce_event called directly
KProduce(c, p) ==
    /\ KFree(c)
    /\ producer[p] # "free"
    /\ ~KBusy(p)
    /\ \E keyOk \in BOOLEAN, sendRes \in IoOutcomes :
          LET r == ProduceResult(producer[p], keyOk, sendRes) IN
          kcall' = [kcall EXCEPT ![c] =
                       KDone("produce_event", p, producer[p], r.outcome,
                             IF r.delivered THEN "delivered" ELSE "None")]
    /\ UNCHANGED <<producer, kafka_service>>

(***************************************************************************)
(* The shared publisher: app/db/kafka.py                                   *)
(***************************************************************************)
\* what connect_to_kafka does when start() raised: a variant that lets the
\* exception out instead of returning None
ConnectFailureRaises == "raised"

ConnectFailure == "returned"

\* connect_to_kafka (fn = "connect_to_kafka") and get_kafka_service, which
\* awaits it when the shared publisher is absent, up to the await of start()
KConnectCall(c, fn) ==
    /\ KFree(c)
    /\ IF ~KAFKA_ENABLED
       THEN /\ kcall' = [kcall EXCEPT ![c] = KDone(fn, "None", "None", "returned", "None")]
            /\ UNCHANGED <<producer, kafka_service>>
       ELSE IF kafka_service = "None"
       THEN \E p \in Pubs :
               /\ producer[p] = "free"
               /\ producer' = [producer EXCEPT ![p] = "unstarted"]
               /\ kafka_service' = p
               /\ kcall' = [kcall EXCEPT ![c] = KWait(fn, "await_start", p, "None")]
       ELSE /\ kcall' = [kcall EXCEPT ![c] =
                            KDone(fn, kafka_service, producer[kafka_service],
                                  "returned", kafka_service)]
            /\ UNCHANGED <<producer, kafka_service>>

\* connect_to_kafka after start(): the shared publisher is returned, or the
\* exception is logged, the shared publisher reset and None returned
KConnectReturn(c) ==
    /\ kcall[c].fn \in {"connect_to_kafka", "get_kafka_service"}
    /\ kcall[c].pc = "await_start"
    /\ \E res \in IoOutcomes :
          LET p == kcall[c].pub IN
          IF res = "ok"
          THEN /\ producer' = [producer EXCEPT ![p] = "started"]
               /\ kcall' = [kcall EXCEPT ![c] =
                               KDone(kcall[c].fn, p, "None", "returned", kafka_service)]
               /\ UNCHANGED kafka_service
          ELSE /\ kafka_service' = "None"
               /\ kcall' = [kcall EXCEPT ![c] =
                               KDone(kcall[c].fn, p, "None", ConnectFailure, "None")]
               /\ UNCHANGED producer

\* close_kafka_connection up to the await inside stop()
KCloseCall(c) ==
    /\ KFree(c)
    /\ IF kafka_service = "None"
       THEN /\ kcall' = [kcall EXCEPT ![c] =
                            KDone("close_kafka_connection", "None", "None", "returned", "None")]
            /\ UNCHANGED <<producer, kafka_service>>
       ELSE /\ ~KBusy(kafka_service)
            /\ IF producer[kafka_service] = "None"
               THEN /\ kafka_service' = "None"
                    /\ kcall' = [kcall EXCEPT ![c] =
                                    KDone("close_kafka_connection", kafka_service,
                                          "None", "returned", "None")]
               ELSE /\ kcall' = [kcall EXCEPT ![c] =
                                    KWait("close_kafka_connection", "await_stop",
                                          kafka_service, producer[kafka_service])]
                    /\ UNCHANGED kafka_service
            /\ UNCHANGED producer

\* close_kafka_connection after stop(): the shared publisher is reset, unless
\* stop() raised
KCloseReturn(c) ==
    /\ kcall[c].fn = "close_kafka_connection"
    /\ kcall[c].pc = "await_stop"
    /\ \E res \in IoOutcomes :
          LET p == kcall[c].pub IN
          IF res = "ok"
          THEN /\ producer' = [producer EXCEPT ![p] = Stopped(kcall[c].pre)]
               /\ kafka_service' = "None"
               /\ kcall' = [kcall EXCEPT ![c] =
                               KDone("close_kafka_connection", p, kcall[c].pre,
                                     "returned", "None")]
          ELSE /\ \E left \in {kcall[c].pre, "unstarted"} :
                     producer' = [producer EXCEPT ![p] = left]
               /\ kcall' = [kcall EXCEPT ![c] =
                               KDone("close_kafka_connection", p, kcall[c].pre,
                                     "raised", "None")]
               /\ UNCHANGED kafka_service

(***************************************************************************)
(* Documents and requests                                                  *)
(***************************************************************************)
\* an identifier that resolves to no document; 0 is also the identifier
\* ObjectId() rejects as malformed
NoDoc == [id |-> 0]

\* the document create_custodian inserts: the payload and both timestamps
NewCustodian(id, val, t) ==
    [id |-> id, name |-> val, code |-> val, description |-> val,
     contact_info |-> val, api_credentials |-> val,
     created_at |-> t, updated_at |-> t]

\* the document create_transaction inserts
NewTransaction(id, cust, val, t) ==
    [id |-> id, custodian_id |-> cust, account_id |-> val, portfolio_id |-> val,
     trade_date |-> t, created_at |-> t, updated_at |-> t]

\* a variant of the write that stores the whole payload, unset fields too
ApplySetWhole(doc, fields, val, t) ==
    [doc EXCEPT !.name = val, !.description = val, !.contact_info = val,
                !.api_credentials = val, !.updated_at = t]

\* a variant that dumps the whole payload (no exclude_unset): the fields the
\* caller did not supply are written with their default, None
ApplySetDefaults(doc, fields, val, t) ==
    [doc EXCEPT !.name = IF "name" \in fields THEN val ELSE "None",
                !.description = IF "description" \in fields THEN val ELSE "None",
                !.contact_info = IF "contact_info" \in fields THEN val ELSE "None",
                !.api_credentials = IF "api_credentials" \in fields THEN val ELSE "None",
                !.updated_at = t]

\* update_one(..., {"$set": update_data}) on a custodian document
ApplySet(doc, fields, val, t) ==
    [doc EXCEPT !.name = IF "name" \in fields THEN val ELSE @,
                !.description = IF "description" \in fields THEN val ELSE @,
                !.contact_info = IF "contact_info" \in fields THEN val ELSE @,
                !.api_credentials = IF "api_credentials" \in fields THEN val ELSE @,
                !.updated_at = t]

\* A date filter as the query string carries it: absent, the empty string, a
\* text that is no ISO date, or the ISO text of a time.
NoDate == [kind |-> "none", at |-> 0]

DateArgs ==
    {NoDate, [kind |-> "empty", at |-> 0], [kind |-> "bad", at |-> 0]}
        \cup {[kind |-> "iso", at |-> t] : t \in 0..MaxClock}

\* "if from_date" / "if to_date": None and the empty string are false
GivenDate(d) == d.kind \notin {"none", "empty"}

\* "if account_id" / "if portfolio_id"
GivenId(x) == x \notin {"None", ""}

\* datetime.fromisoformat raises ValueError on a text that is no ISO date
IsoRaises(d) == d.kind = "bad"

\* get_transactions up to the cursor: building the query raises
QueryRaises(rec) ==
    \/ GivenDate(rec.from) /\ IsoRaises(rec.from)
    \/ GivenDate(rec.to) /\ IsoRaises(rec.to)

\* a variant of the query whose upper date bound is exclusive
InQueryExclusive(doc, rec) ==
    /\ doc # NoDoc
    /\ doc.custodian_id = rec.id
    /\ GivenId(rec.acc) => doc.account_id = rec.acc
    /\ GivenId(rec.port) => doc.portfolio_id = rec.port
    /\ GivenDate(rec.from) => doc.trade_date >= rec.from.at
    /\ GivenDate(rec.to) => doc.trade_date < rec.to.at

\* the query get_transactions hands to find(): custodian_id, the narrowing
\* identifiers that are given, and trade_date with $gte / $lte
InQuery(doc, rec) ==
    /\ doc # NoDoc
    /\ doc.custodian_id = rec.id
    /\ GivenId(rec.acc) => doc.account_id = rec.acc
    /\ GivenId(rec.port) => doc.portfolio_id = rec.port
    /\ GivenDate(rec.from) => doc.trade_date >= rec.from.at
    /\ GivenDate(rec.to) => doc.trade_date <= rec.to.at

\* a response whose body the model does not look at
NoBody == [status |-> "none"]

\* the body health_check returns
HealthBody ==
    [status |-> "healthy", service |-> "custodian-service", database |-> "connected"]

Endpoints ==
    {"create_custodian", "update_custodian", "create_transaction",
     "delete_custodian", "get_custodian", "db_health"}

\* the operations that emit an event
Emitting == {"create_custodian", "update_custodian", "create_transaction"}

ReqIdle ==
    [ep |-> "none", pc |-> "idle", via |-> "none", id |-> 0, fields |-> {},
     val |-> "a", ksvc |-> "None", db |-> "unset", tried |-> FALSE,
     sawFailed |-> FALSE, ts |-> 0, base |-> 0 - 1, newid |-> 0, wrote |-> FALSE,
     fetched |-> FALSE, calls |-> 0, topic |-> "none", evfields |-> {},
     prod |-> "None",
     sent |-> "none", busReady |-> FALSE, storeErr |-> FALSE, status |-> 0,
     ret |-> NoDoc, acc |-> "None", port |-> "None", from |-> NoDate,
     to |-> NoDate, list |-> {}, body |-> NoBody]

\* the request ends with an HTTP status (or, for a direct call, its analogue:
\* 500 an exception, 404 a None/False result)
Finish(rec, status, ret) == [rec EXCEPT !.pc = "done", !.status = status, !.ret = ret]

\* the status of a request that succeeds
OkStatus(ep) ==
    CASE ep \in {"create_custodian", "create_transaction"} -> 201
      [] ep = "delete_custodian" -> 204
      [] OTHER -> 200

\* a variant of update_custodian that writes whatever the change-set holds
HasChangesAlways(fields) == TRUE

\* update_custodian's test of the change-set: "if update_data"
HasChanges(fields) == fields # {}

\* the handler reads the clock before its first await
Stamps(rec, db) ==
    /\ db # "None"
    /\ \/ rec.ep \in {"create_custodian", "create_transaction"}
       \/ rec.ep = "update_custodian" /\ HasChanges(rec.fields)

\* the updated_at the store holds for a custodian at the moment a handler
\* reads the clock (before any record: -1)
LastStamp(id) ==
    IF custodians[id] # NoDoc THEN custodians[id].updated_at ELSE 0 - 1

\* handle_db_errors: "except (ValueError, ConnectionError)" becomes
\* HTTP_500_INTERNAL_SERVER_ERROR
ValueErrorStatus == 500

\* The handler from the yield of get_database to its first await:
\* CustodianService(db) raises ValueError without a handle (500 through
\* handle_db_errors); ObjectId(custodian_id) raises on a malformed identifier,
\* which get, update and delete turn into None/False (404); db_health_check
\* catches the failure of db.command on an absent handle.
Started(rec, db, t) ==
    LET r0 == [rec EXCEPT !.db = db] IN
    IF rec.ep = "db_health"
    THEN IF db = "None" THEN Finish(r0, 200, NoDoc) ELSE [r0 EXCEPT !.pc = "dbping"]
    ELSE IF db = "None" THEN Finish(r0, 500, NoDoc)
    ELSE CASE rec.ep \in {"create_custodian", "create_transaction"} ->
                [r0 EXCEPT !.pc = "insert", !.ts = t]
           [] rec.ep = "update_custodian" ->
                IF ~HasChanges(rec.fields)
                THEN IF rec.id = 0 THEN Finish(r0, 404, NoDoc)
                     ELSE [r0 EXCEPT !.pc = "find"]
                ELSE IF rec.id = 0 THEN Finish([r0 EXCEPT !.ts = t], 404, NoDoc)
                     ELSE [r0 EXCEPT !.pc = "update", !.ts = t,
                                     !.base = LastStamp(rec.id)]
           [] rec.ep = "delete_custodian" ->
                IF rec.id = 0 THEN Finish(r0, 404, NoDoc)
                ELSE [r0 EXCEPT !.pc = "delete"]
           [] rec.ep = "get_transactions" ->
                IF QueryRaises(rec) THEN Finish(r0, ValueErrorStatus, NoDoc)
                ELSE [r0 EXCEPT !.pc = "list"]
           [] OTHER ->
                IF rec.id = 0 THEN Finish(r0, 404, NoDoc)
                ELSE [r0 EXCEPT !.pc = "find"]

\* the handler starts: the clock is read when the operation stamps a time
Start(r, rec, db) ==
    IF Stamps(rec, db)
    THEN \E t \in now..MaxClock :
            /\ now' = t
            /\ req' = [req EXCEPT ![r] = Started(rec, db, t)]
    ELSE /\ req' = [req EXCEPT ![r] = Started(rec, db, now)]
         /\ UNCHANGED now

(***************************************************************************)
(* HTTP layer: app/api/v1/endpoints/custodian.py and main.py               *)
(***************************************************************************)
\* the process accepts requests: after a completed startup, or when the app
\* is mounted without its lifespan events (TestClient(app) in test_app.py)
Accepting == phase \in {"serving", "nolifespan"}

\* a request arrives at an endpoint; every endpoint builds CustodianService(db)
\* with no publisher
HttpRequestTo(r, eps) ==
    /\ Accepting
    /\ req[r].pc = "idle"
    /\ accepted < MaxRequests
    /\ accepted' = accepted + 1
    /\ \E ep \in eps, id \in 0..MaxDocs, fields \in UpdChoices :
          req' = [req EXCEPT ![r] =
                     [ReqIdle EXCEPT !.ep = ep, !.pc = "getdb", !.via = "http",
                                     !.id = IF ep \in {"create_custodian", "db_health"}
                                            THEN 0 ELSE id,
                                     !.fields = IF ep = "update_custodian"
                                                THEN fields ELSE {},
                                     !.val = IF ep = "update_custodian"
                                             THEN "b" ELSE "a"]]
    /\ UNCHANGED <<KAFKA_ENABLED, phase, mongoVars, kafkaVars, storeVars>>

HttpRequest(r) == HttpRequestTo(r, Endpoints)

\* GET /{custodian_id}/transactions with its query parameters; the scoping
\* identifier is any string, it is never converted to an ObjectId
ListRequest(r) ==
    /\ Accepting
    /\ req[r].pc = "idle"
    /\ accepted < MaxRequests
    /\ accepted' = accepted + 1
    /\ \E id \in 0..MaxDocs, acc \in AccountArgs, port \in PortfolioArgs,
          from \in DateArgs, to \in DateArgs :
          req' = [req EXCEPT ![r] =
                     [ReqIdle EXCEPT !.ep = "get_transactions", !.pc = "getdb",
                                     !.via = "http", !.id = id, !.acc = acc,
                                     !.port = port, !.from = from, !.to = to]]
    /\ UNCHANGED <<KAFKA_ENABLED, phase, mongoVars, kafkaVars, storeVars>>

\* the cursor of get_transactions is exhausted: the matching documents, or
\* the store raised (the exception leaves the handler: 500)
StoreList(r) ==
    /\ req[r].pc = "list"
    /\ \E res \in IoOutcomes :
          req' = [req EXCEPT ![r] =
                     IF res = "ok"
                     THEN Finish([req[r] EXCEPT !.list =
                                     {i \in 1..MaxDocs :
                                         InQuery(transactions[i], req[r])}],
                                 200, NoDoc)
                     ELSE Finish([req[r] EXCEPT !.storeErr = TRUE], 500, NoDoc)]
    /\ UNCHANGED <<KAFKA_ENABLED, accepted, phase, mongoVars, kafkaVars, storeVars>>

\* get_database's test before it yields
NeedsConnect == client = "None"

\* get_database: connect when no client exists, then yield the database
\* handle; the handler runs to its first await
GetDatabase(r) ==
    /\ req[r].pc = "getdb"
    /\ LET seen == [req[r] EXCEPT
                      !.sawFailed = ( /\ conn.owner \in Reqs
                                      /\ conn.status = "raised"
                                      /\ conn.err = "connfail"
                                      /\ database = "None" )] IN
       IF NeedsConnect
       THEN /\ ConnQuiet
            /\ ConnectCall(r, DefaultMaxRetries)
            /\ req' = [req EXCEPT ![r] = [seen EXCEPT !.pc = "connect", !.tried = TRUE]]
            /\ UNCHANGED now
       ELSE /\ Start(r, seen, database)
            /\ UNCHANGED mongoVars
    /\ UNCHANGED <<KAFKA_ENABLED, accepted, phase, kafkaVars, custodians, custNext,
                   transactions, txNext>>

\* get_database resumed by connect_to_mongodb: the next attempt, the yield of
\* the handle, or the connection error (a 500 of the dependency)
GetDatabaseConnect(r) ==
    /\ req[r].pc = "connect"
    /\ ConnectStep(r)
    /\ CASE conn'.status = "returned" -> Start(r, req[r], database')
         [] conn'.status = "raised" ->
              /\ req' = [req EXCEPT ![r] = Finish(req[r], 500, NoDoc)]
              /\ UNCHANGED now
         [] OTHER -> UNCHANGED <<req, now>>
    /\ UNCHANGED <<KAFKA_ENABLED, accepted, phase, kafkaVars, custodians, custNext,
                   transactions, txNext>>

\* db_health_check after db.command("ping"): healthy or unhealthy, both 200
DbHealthPing(r) ==
    /\ req[r].pc = "dbping"
    /\ \E res \in IoOutcomes :
          req' = [req EXCEPT ![r] = Finish([req[r] EXCEPT !.sent = res], 200, NoDoc)]
    /\ UNCHANGED <<KAFKA_ENABLED, accepted, phase, mongoVars, kafkaVars, storeVars>>

\* GET /: health_check has no dependency and no await; it answers at once,
\* whatever the gateway holds
HealthCheck(r) ==
    /\ Accepting
    /\ req[r].pc = "idle"
    /\ accepted < MaxRequests
    /\ accepted' = accepted + 1
    /\ req' = [req EXCEPT ![r] =
                  Finish([ReqIdle EXCEPT !.ep = "health_check", !.via = "http",
                                         !.body = HealthBody], 200, NoDoc)]
    /\ UNCHANGED <<KAFKA_ENABLED, phase, mongoVars, kafkaVars, storeVars>>

\* the response leaves; the slot takes the next request
Respond(r) ==
    /\ req[r].pc = "done"
    /\ req' = [req EXCEPT ![r] = ReqIdle]
    /\ UNCHANGED <<KAFKA_ENABLED, accepted, phase, mongoVars, kafkaVars, storeVars>>

(***************************************************************************)
(* Domain service: app/services/custodian_service.py                       *)
(***************************************************************************)
\* CustodianService(db, kafka_service) used without the HTTP layer: the
\* caller passes the published handle and any publisher object, or none
DirectRequest(r) ==
    /\ req[r].pc = "idle"
    /\ accepted < MaxRequests
    /\ accepted' = accepted + 1
    /\ \E ep \in Endpoints \ {"db_health"}, id \in 0..MaxDocs,
          fields \in UpdChoices,
          k \in {"None"} \cup {p \in Pubs : producer[p] # "free"} :
          Start(r, [ReqIdle EXCEPT !.ep = ep, !.via = "direct", !.ksvc = k,
                                   !.id = IF ep = "create_custodian" THEN 0 ELSE id,
                                   !.fields = IF ep = "update_custodian"
                                              THEN fields ELSE {},
                                   !.val = IF ep = "update_custodian"
                                           THEN "b" ELSE "a"],
                database)
    /\ UNCHANGED <<KAFKA_ENABLED, phase, mongoVars, kafkaVars, custodians,
                   custNext, transactions, txNext>>

\* update_custodian(custodian_id, custodian_update) called with a non-empty
\* change-set, to its await of update_one
UpdateRequest(r) ==
    /\ req[r].pc = "idle"
    /\ accepted < MaxRequests
    /\ accepted' = accepted + 1
    /\ \E id \in 1..MaxDocs, fields \in RaceChoices, val \in RaceVals :
          Start(r, [ReqIdle EXCEPT !.ep = "update_custodian", !.via = "direct",
                                   !.id = id, !.fields = fields, !.val = val],
                database)
    /\ UNCHANGED <<KAFKA_ENABLED, phase, mongoVars, kafkaVars, custodians,
                   custNext, transactions, txNext>>

\* the status after the store raised inside an operation: the create
\* operations let the exception out (500); get, update and delete catch it
\* ("except Exception: return None" / "return False") and the endpoint
\* answers 404
Swallowed(ep) == IF ep \in {"create_custodian", "create_transaction"} THEN 500 ELSE 404

\* insert_one returned: the document is stored under a fresh identifier, or
\* the store raised (the exception leaves the handler: 500)
StoreInsert(r) ==
    /\ req[r].pc = "insert"
    /\ \E res \in IoOutcomes :
          IF res = "ok" /\ req[r].ep = "create_custodian" /\ custNext <= MaxDocs
          THEN /\ custodians' = [custodians EXCEPT ![custNext] =
                                    NewCustodian(custNext, req[r].val, req[r].ts)]
               /\ custNext' = custNext + 1
               /\ req' = [req EXCEPT ![r] = [req[r] EXCEPT !.pc = "find",
                                                           !.newid = custNext,
                                                           !.wrote = TRUE]]
               /\ UNCHANGED <<transactions, txNext>>
          ELSE IF res = "ok" /\ req[r].ep = "create_transaction" /\ txNext <= MaxDocs
          THEN /\ transactions' = [transactions EXCEPT ![txNext] =
                                      NewTransaction(txNext, req[r].id, req[r].val,
                                                     req[r].ts)]
               /\ txNext' = txNext + 1
               /\ req' = [req EXCEPT ![r] = [req[r] EXCEPT !.pc = "find",
                                                           !.newid = txNext,
                                                           !.wrote = TRUE]]
               /\ UNCHANGED <<custodians, custNext>>
          ELSE /\ req' = [req EXCEPT ![r] =
                             Finish([req[r] EXCEPT !.storeErr = TRUE], 500, NoDoc)]
               /\ UNCHANGED <<custodians, custNext, transactions, txNext>>
    /\ UNCHANGED <<KAFKA_ENABLED, accepted, phase, mongoVars, kafkaVars, now>>

\* update_one returned: the matching document, if any, has the supplied
\* fields and updated_at set; a store exception is caught and None returned
StoreUpdate(r) ==
    /\ req[r].pc = "update"
    /\ \E res \in IoOutcomes :
          IF res = "ok"
          THEN /\ custodians' =
                     IF custodians[req[r].id] # NoDoc
                     THEN [custodians EXCEPT ![req[r].id] =
                              ApplySet(@, req[r].fields, req[r].val, req[r].ts)]
                     ELSE custodians
               /\ req' = [req EXCEPT ![r] =
                             [req[r] EXCEPT !.pc = "find", !.wrote = TRUE]]
          ELSE /\ req' = [req EXCEPT ![r] =
                             Finish([req[r] EXCEPT !.storeErr = TRUE],
                                    Swallowed("update_custodian"), NoDoc)]
               /\ UNCHANGED custodians
    /\ UNCHANGED <<KAFKA_ENABLED, accepted, phase, mongoVars, kafkaVars, custNext,
                   transactions, txNext, now>>

\* a variant of the delete that also removes what references the custodian
DependentsCascade(txs, id) ==
    [i \in 1..MaxDocs |->
        IF txs[i] # NoDoc /\ txs[i].custodian_id = id THEN NoDoc ELSE txs[i]]

\* the transactions after a custodian was deleted: delete_custodian issues
\* one delete_one on the custodian collection and nothing else
Dependents(txs, id) == txs

\* delete_one returned: found and deleted, not found, or a store exception
\* caught and turned into False
StoreDelete(r) ==
    /\ req[r].pc = "delete"
    /\ \E res \in IoOutcomes :
          IF res = "ok" /\ custodians[req[r].id] # NoDoc
          THEN /\ custodians' = [custodians EXCEPT ![req[r].id] = NoDoc]
               /\ transactions' = Dependents(transactions, req[r].id)
               /\ req' = [req EXCEPT ![r] =
                             Finish([req[r] EXCEPT !.wrote = TRUE], 204, NoDoc)]
          ELSE /\ req' = [req EXCEPT ![r] =
                             IF res = "fail"
                             THEN Finish([req[r] EXCEPT !.storeErr = TRUE],
                                         Swallowed("delete_custodian"), NoDoc)
                             ELSE Finish(req[r], 404, NoDoc)]
               /\ UNCHANGED <<custodians, transactions>>
    /\ UNCHANGED <<KAFKA_ENABLED, accepted, phase, mongoVars, kafkaVars, custNext,
                   txNext, now>>

\* the topic an operation publishes to: settings.KAFKA_CUSTODIAN_TOPIC or
\* settings.KAFKA_TRANSACTION_TOPIC
Topic(ep) == IF ep = "create_transaction" THEN "transactions" ELSE "custodian"

\* a variant of the emission guard that forgets the enabled flag
ShouldEmitIgnoresFlag(ksvc) == ksvc # "None"

\* "if self.kafka_service and settings.KAFKA_ENABLED"
ShouldEmit(ksvc) == ksvc # "None" /\ KAFKA_ENABLED

\* a variant of the re-fetch test that lets an absent record through
RefetchedUnchecked(rec, doc) == rec.ep = "update_custodian" \/ doc # NoDoc

\* the re-fetch found the record: "if not created_custodian" /
\* "if not updated_custodian"
Refetched(rec, doc) == doc # NoDoc

\* the shared publisher exists and runs, and the bus is enabled
BusReady ==
    /\ KAFKA_ENABLED
    /\ kafka_service # "None"
    /\ producer[kafka_service] = "started"

\* the keys of update_data when the event is built: the supplied fields and
\* the "updated_at" entry update_custodian added before the write
UpdateData(fields) == fields \cup {"updated_at"}

\* the event's "updated_fields": list(update_data.keys()); the create events
\* carry no such list
UpdatedFields(rec) ==
    IF rec.ep = "update_custodian" THEN UpdateData(rec.fields) ELSE {}

\* The operation after a successful re-fetch, to its next await: without a
\* publisher, or disabled, it returns the record; otherwise it builds the
\* event and calls produce_event, which returns at once on a publisher
\* without a producer and else awaits send_and_wait.
Emission(rec, doc) ==
    LET got == [rec EXCEPT !.fetched = (doc # NoDoc), !.busReady = BusReady] IN
    IF rec.ep \in Emitting /\ ~(rec.ep = "update_custodian" /\ ~HasChanges(rec.fields))
       /\ ShouldEmit(rec.ksvc)
    THEN LET called == [got EXCEPT !.calls = @ + 1, !.topic = Topic(rec.ep),
                                   !.evfields = UpdatedFields(rec),
                                   !.prod = producer[rec.ksvc]] IN
         IF producer[rec.ksvc] = "None"
         THEN Finish([called EXCEPT !.sent = "dropped"], OkStatus(rec.ep), doc)
         ELSE [called EXCEPT !.pc = "send", !.ret = doc]
    ELSE Finish(got, OkStatus(rec.ep), doc)

\* the document a request re-fetches
Target(rec) ==
    CASE rec.ep = "create_custodian" -> custodians[rec.newid]
      [] rec.ep = "create_transaction" -> transactions[rec.newid]
      [] OTHER -> custodians[rec.id]

\* a variant in which a read that finds nothing is an error
MissingIsError(ep) == 500

\* the status when the re-fetch finds nothing or raises: the create
\* operations raise (500), get_custodian answers None (404)
Missing(ep) == IF ep \in {"create_custodian", "create_transaction"} THEN 500 ELSE 404

\* find_one returned (the re-fetch of create and update, the read of get)
StoreFind(r) ==
    /\ req[r].pc = "find"
    /\ \E res \in IoOutcomes :
          IF res = "ok" /\ Refetched(req[r], Target(req[r]))
          THEN req' = [req EXCEPT ![r] = Emission(req[r], Target(req[r]))]
          ELSE req' = [req EXCEPT ![r] =
                         IF res = "fail"
                         THEN Finish([req[r] EXCEPT !.storeErr = TRUE],
                                     Swallowed(req[r].ep), NoDoc)
                         ELSE Finish(req[r], Missing(req[r].ep), NoDoc)]
    /\ UNCHANGED <<KAFKA_ENABLED, accepted, phase, mongoVars, kafkaVars, storeVars>>

\* a variant of the operation's end that fails the request when the event
\* was not delivered
AfterSendStrict(rec, pr) ==
    IF pr.delivered
    THEN Finish([rec EXCEPT !.sent = "delivered"], OkStatus(rec.ep), rec.ret)
    ELSE Finish([rec EXCEPT !.sent = "failed"], 500, NoDoc)

\* the operation after produce_event: an exception of the publish step is
\* caught and logged, and the record is returned either way
AfterSend(rec, pr) ==
    Finish([rec EXCEPT !.sent = IF pr.delivered THEN "delivered" ELSE "failed"],
           OkStatus(rec.ep), rec.ret)

\* send_and_wait returned inside produce_event; a producer that was stopped
\* or replaced meanwhile cannot send
StoreSend(r) ==
    /\ req[r].pc = "send"
    /\ \E sendRes \in IoOutcomes :
          LET cur == IF producer[req[r].ksvc] = req[r].prod
                     THEN req[r].prod ELSE "unstarted" IN
          req' = [req EXCEPT ![r] =
                     AfterSend(req[r], ProduceResult(cur, TRUE, sendRes))]
    /\ UNCHANGED <<KAFKA_ENABLED, accepted, phase, mongoVars, kafkaVars, storeVars>>

(***************************************************************************)
(* Process lifecycle: main.py.  The startup handlers run in the order they *)
(* are registered; an exception of one aborts the startup and the process  *)
(* exits without serving.                                                  *)
(***************************************************************************)
\* a variant of startup_db_client that logs the failure and goes on
StartupDbFailureSwallowed == "startup_kafka"

\* startup_db_client when connect_to_mongodb raised: "raise"
StartupDbFailure == "aborted"

\* startup_db_client up to the first ping
StartupDbBegin ==
    /\ phase = "init"
    /\ ConnectCall("startup", DefaultMaxRetries)
    /\ phase' = "startup_db"
    /\ UNCHANGED <<KAFKA_ENABLED, accepted, kafkaVars, storeVars, req>>

\* startup_db_client resumed by connect_to_mongodb
StartupDbStep ==
    /\ phase = "startup_db"
    /\ ConnectStep("startup")
    /\ phase' = CASE conn'.status = "returned" -> "startup_kafka"
                  [] conn'.status = "raised" -> StartupDbFailure
                  [] OTHER -> phase
    /\ UNCHANGED <<KAFKA_ENABLED, accepted, kafkaVars, storeVars, req>>

\* startup_kafka_client up to the await of start(); nothing to do when the
\* bus is disabled
StartupKafkaBegin ==
    /\ phase = "startup_kafka"
    /\ IF KAFKA_ENABLED
       THEN /\ KConnectCall("main", "connect_to_kafka")
            /\ phase' = IF kcall'["main"].pc = "done"
                        THEN "startup_seed" ELSE "startup_kafka_wait"
       ELSE /\ phase' = "startup_seed"
            /\ UNCHANGED kafkaVars
    /\ UNCHANGED <<KAFKA_ENABLED, accepted, mongoVars, storeVars, req>>

\* startup_kafka_client resumed by connect_to_kafka: a publisher or None,
\* both let the startup go on
StartupKafkaStep ==
    /\ phase = "startup_kafka_wait"
    /\ KConnectReturn("main")
    /\ phase' = IF kcall'["main"].outcome = "raised" THEN "aborted" ELSE "startup_seed"
    /\ UNCHANGED <<KAFKA_ENABLED, accepted, mongoVars, storeVars, req>>

\* the seed data: one custodian
SeedCustodian(id, t) == NewCustodian(id, "a", t)

\* a collection without records
EmptyColl == [i \in 1..MaxDocs |-> NoDoc]

\* the order in which seed_database clears the collections
SeedOrder == <<"custodians", "portfolios", "accounts", "positions", "transactions">>

\* a variant of the clearing whose filter matches nothing
AfterDeleteManyKeeps(coll) == coll

\* a collection after delete_many({}): every record is gone
AfterDeleteMany(coll) == EmptyColl

\* the collection named n is among the first k of SeedOrder
ClearedWithin(n, k) == \E j \in 1..k : SeedOrder[j] = n

\* seed_database_on_startup, the clearing: seed_database awaits one
\* delete_many({}) per collection, in SeedOrder.  When the k-th raises, the
\* collections before it are cleared, it and the later ones keep their
\* records, the failure is logged and the startup goes on without seed data.
StartupSeedClear ==
    /\ phase = "startup_seed"
    /\ \E res \in IoOutcomes, k \in 1..Len(SeedOrder) :
          LET done == IF res = "ok" THEN Len(SeedOrder) ELSE k - 1 IN
          /\ custodians' = IF ClearedWithin("custodians", done)
                            THEN AfterDeleteMany(custodians) ELSE custodians
          /\ transactions' = IF ClearedWithin("transactions", done)
                              THEN AfterDeleteMany(transactions) ELSE transactions
          /\ phase' = IF res = "ok" THEN "startup_seed_insert" ELSE "serving"
    /\ UNCHANGED <<KAFKA_ENABLED, accepted, mongoVars, kafkaVars, custNext, txNext,
                   now, req>>

\* seed_database_on_startup, the inserts: the seed data is loaded and
\* inserted under fresh identifiers, custodians first; a failure (a data
\* file that cannot be read, an insert that raises) is logged, leaves what
\* was inserted before it, and the startup goes on
StartupSeedInsert ==
    /\ phase = "startup_seed_insert"
    /\ \E res \in IoOutcomes, inserted \in BOOLEAN :
          IF (res = "ok" \/ inserted) /\ custNext <= MaxDocs
          THEN /\ custodians' = [custodians EXCEPT ![custNext] =
                                    SeedCustodian(custNext, now)]
               /\ custNext' = custNext + 1
          ELSE UNCHANGED <<custodians, custNext>>
    /\ phase' = "serving"
    /\ UNCHANGED <<KAFKA_ENABLED, accepted, mongoVars, kafkaVars, transactions,
                   txNext, now, req>>

\* shutdown_db_client does nothing; shutdown_kafka_client up to the await
\* inside stop().  The server stops once the requests in flight are answered.
ShutdownBegin ==
    /\ phase = "serving"
    /\ \A r \in Reqs : req[r].pc = "idle"
    /\ IF KAFKA_ENABLED
       THEN /\ KCloseCall("main")
            /\ phase' = IF kcall'["main"].pc = "done" THEN "stopped" ELSE "shutdown_wait"
       ELSE /\ phase' = "stopped"
            /\ UNCHANGED kafkaVars
    /\ UNCHANGED <<KAFKA_ENABLED, accepted, mongoVars, storeVars, req>>

\* shutdown_kafka_client resumed by close_kafka_connection
ShutdownStep ==
    /\ phase = "shutdown_wait"
    /\ KCloseReturn("main")
    /\ phase' = "stopped"
    /\ UNCHANGED <<KAFKA_ENABLED, accepted, mongoVars, storeVars, req>>

(***************************************************************************)
(* Initial states                                                          *)
(***************************************************************************)
\* the store a process finds: empty, or holding a custodian of an earlier run
StoresFound ==
    {<<EmptyColl, 1>>,
     <<[i \in 1..MaxDocs |-> IF i = 1 THEN NewCustodian(1, "a", 0) ELSE NoDoc], 2>>}

InitModules ==
    /\ client = "None"
    /\ database = "None"
    /\ collections = {}
    /\ conn = ConnIdle
    /\ producer = [p \in Pubs |-> "free"]
    /\ kafka_service = "None"
    /\ kcall = [c \in KCallers |-> KIdle]
    /\ transactions = EmptyColl
    /\ txNext = 1
    /\ now = 0
    /\ accepted = 0
    /\ req = [r \in Reqs |-> ReqIdle]

\* the process as uvicorn starts it (main.py)
Init ==
    /\ InitModules
    /\ KAFKA_ENABLED \in BOOLEAN
    /\ phase = "init"
    /\ \E st \in StoresFound : custodians = st[1] /\ custNext = st[2]

\* The process answers its requests one at a time; the endpoints never
\* reach get_database's connect, because a process that serves has connected.
Next ==
    \/ StartupDbBegin
    \/ StartupDbStep
    \/ StartupKafkaBegin
    \/ StartupKafkaStep
    \/ StartupSeedClear
    \/ StartupSeedInsert
    \/ ShutdownBegin
    \/ ShutdownStep
    \/ \E r \in Serial : HttpRequest(r)
    \/ \E r \in Serial : GetDatabase(r)
    \/ \E r \in Serial : DbHealthPing(r)
    \/ \E r \in Serial : StoreInsert(r)
    \/ \E r \in Serial : StoreUpdate(r)
    \/ \E r \in Serial : StoreDelete(r)
    \/ \E r \in Serial : StoreFind(r)
    \/ \E r \in Serial : Respond(r)

Spec == Init /\ [][Next]_vars

(***************************************************************************)
(* The gateway used without the startup handlers: connect_to_mongodb       *)
(* called with any max_retries, and requests whose get_database finds no   *)
(* client (the app mounted as in test_app.py).                             *)
(***************************************************************************)
notGateway == <<KAFKA_ENABLED, phase, kafkaVars, storeVars, accepted>>

\* connect_to_mongodb(max_retries, retry_delay) called directly, one call at
\* a time
DirectConnect ==
    /\ ConnQuiet
    /\ \A r \in Reqs : req[r].pc # "connect"
    /\ \E m \in (0 - 1)..MaxRetries : ConnectCall("direct", m)
    /\ UNCHANGED <<notGateway, req>>

DirectConnectStep ==
    /\ ConnectStep("direct")
    /\ UNCHANGED <<notGateway, req>>

\* requests to /db-health and to GET /custodian/{id}
GatewayRequest(r) == HttpRequestTo(r, {"db_health", "get_custodian"})

InitConn ==
    /\ InitModules
    /\ KAFKA_ENABLED = TRUE
    /\ phase = "nolifespan"
    /\ custodians = EmptyColl
    /\ custNext = 1

NextConn ==
    \/ DirectConnect
    \/ DirectConnectStep
    \/ \E r \in Reqs : GatewayRequest(r)
    \/ \E r \in Reqs : HealthCheck(r)
    \/ \E r \in Reqs : GetDatabase(r)
    \/ \E r \in Reqs : GetDatabaseConnect(r)
    \/ \E r \in Reqs : DbHealthPing(r)
    \/ \E r \in Reqs : StoreFind(r)
    \/ \E r \in Reqs : Respond(r)

SpecConn == InitConn /\ [][NextConn]_vars

(***************************************************************************)
(* The publisher module used by itself: any caller constructs publishers   *)
(* and calls their methods and the functions of app/db/kafka.py.           *)
(***************************************************************************)
notPublisher == <<KAFKA_ENABLED, phase, mongoVars, storeVars, accepted, req>>

KafkaService(p) == KConstruct(p) /\ UNCHANGED notPublisher

start(c, p) == KStartCall(c, p) /\ UNCHANGED notPublisher

start_return(c) == KStartReturn(c) /\ UNCHANGED notPublisher

stop(c, p) == KStopCall(c, p) /\ UNCHANGED notPublisher

stop_return(c) == KStopReturn(c) /\ UNCHANGED notPublisher

produce_event(c, p) == KProduce(c, p) /\ UNCHANGED notPublisher

connect_to_kafka(c) == KConnectCall(c, "connect_to_kafka") /\ UNCHANGED notPublisher

get_kafka_service(c) == KConnectCall(c, "get_kafka_service") /\ UNCHANGED notPublisher

connect_return(c) == KConnectReturn(c) /\ UNCHANGED notPublisher

close_kafka_connection(c) == KCloseCall(c) /\ UNCHANGED notPublisher

close_return(c) == KCloseReturn(c) /\ UNCHANGED notPublisher

InitPub ==
    /\ InitModules
    /\ KAFKA_ENABLED \in BOOLEAN
    /\ phase = "nolifespan"
    /\ custodians = EmptyColl
    /\ custNext = 1

NextPub ==
    \/ \E p \in Pubs : KafkaService(p)
    \/ \E c \in KCallers, p \in Pubs : start(c, p)
    \/ \E c \in KCallers : start_return(c)
    \/ \E c \in KCallers, p \in Pubs : stop(c, p)
    \/ \E c \in KCallers : stop_return(c)
    \/ \E c \in KCallers, p \in Pubs : produce_event(c, p)
    \/ \E c \in KCallers : connect_to_kafka(c)
    \/ \E c \in KCallers : get_kafka_service(c)
    \/ \E c \in KCallers : connect_return(c)
    \/ \E c \in KCallers : close_kafka_connection(c)
    \/ \E c \in KCallers : close_return(c)

SpecPub == InitPub /\ [][NextPub]_vars

(***************************************************************************)
(* The domain service used with a published handle and with publishers in  *)
(* any state: CustodianService(db, kafka_service) called by two concurrent  *)
(* tasks, while another task constructs, starts and stops publishers and   *)
(* resolves the shared one.                                                *)
(***************************************************************************)
\* the task that handles the publishers
Handler == {"k1"}

InitSvc ==
    /\ client = "obj"
    /\ database = "db"
    /\ collections = CollNames
    /\ conn = [owner |-> "startup", max_retries |-> DefaultMaxRetries,
               attempt |-> 1, fails |-> 0, status |-> "returned", err |-> "none"]
    /\ \E st \in {"None", "unstarted", "started"} :
          producer = [p \in Pubs |-> IF p = "p1" THEN st ELSE "free"]
    /\ kafka_service = "None"
    /\ kcall = [c \in KCallers |-> KIdle]
    /\ \E st \in StoresFound : custodians = st[1] /\ custNext = st[2]
    /\ transactions = EmptyColl
    /\ txNext = 1
    /\ now = 0
    /\ accepted = 0
    /\ req = [r \in Reqs |-> ReqIdle]
    /\ KAFKA_ENABLED \in BOOLEAN
    /\ phase = "nolifespan"

NextSvc ==
    \/ \E r \in Reqs : DirectRequest(r)
    \/ \E r \in Reqs : StoreInsert(r)
    \/ \E r \in Reqs : StoreUpdate(r)
    \/ \E r \in Reqs : StoreDelete(r)
    \/ \E r \in Reqs : StoreFind(r)
    \/ \E r \in Reqs : StoreSend(r)
    \/ \E r \in Reqs : Respond(r)

SpecSvc == InitSvc /\ [][NextSvc]_vars

(***************************************************************************)
(* The domain service next to the bus gateway: one caller at a time uses   *)
(* CustodianService(db, kafka_service) while a second task constructs and  *)
(* starts publishers and calls connect_to_kafka and get_kafka_service.     *)
(***************************************************************************)
InitBus ==
    /\ producer = [p \in Pubs |-> "free"]
    /\ kafka_service = "None"
    /\ kcall = [c \in KCallers |-> KIdle]
    /\ transactions = EmptyColl
    /\ txNext = 1
    /\ now = 0
    /\ accepted = 0
    /\ req = [r \in Reqs |-> ReqIdle]
    /\ client = "obj"
    /\ database = "db"
    /\ collections = CollNames
    /\ conn = [owner |-> "startup", max_retries |-> DefaultMaxRetries,
               attempt |-> 1, fails |-> 0, status |-> "returned", err |-> "none"]
    /\ custodians = EmptyColl
    /\ custNext = 1
    /\ KAFKA_ENABLED \in BOOLEAN
    /\ phase = "nolifespan"

NextBus ==
    \/ \E r \in Serial : DirectRequest(r)
    \/ \E r \in Serial : StoreInsert(r)
    \/ \E r \in Serial : StoreUpdate(r)
    \/ \E r \in Serial : StoreDelete(r)
    \/ \E r \in Serial : StoreFind(r)
    \/ \E r \in Serial : StoreSend(r)
    \/ \E r \in Serial : Respond(r)
    \/ \E p \in Pubs : KafkaService(p)
    \/ \E c \in Handler, p \in Pubs : start(c, p)
    \/ \E c \in Handler : start_return(c)
    \/ \E c \in Handler : connect_to_kafka(c)
    \/ \E c \in Handler : get_kafka_service(c)
    \/ \E c \in Handler : connect_return(c)

SpecBus == InitBus /\ [][NextBus]_vars

(***************************************************************************)
(* The transaction listing: the serving process answers                    *)
(* GET /{custodian_id}/transactions over a store that holds transactions   *)
(* of several custodians, accounts, portfolios and trade dates.            *)
(***************************************************************************)
\* the transactions create_transaction can have stored under identifier i
StoredTx(i) ==
    {[NewTransaction(i, c, "a", 0) EXCEPT !.account_id = a, !.portfolio_id = p,
                                          !.trade_date = d] :
        c \in 1..MaxDocs, a \in AccountIds, p \in PortfolioIds, d \in 0..MaxClock}

InitList ==
    /\ client = "obj"
    /\ database = "db"
    /\ collections = CollNames
    /\ conn = [owner |-> "startup", max_retries |-> DefaultMaxRetries,
               attempt |-> 1, fails |-> 0, status |-> "returned", err |-> "none"]
    /\ producer = [p \in Pubs |-> "free"]
    /\ kafka_service = "None"
    /\ kcall = [c \in KCallers |-> KIdle]
    /\ custodians = EmptyColl
    /\ custNext = 1
    /\ transactions \in {tx \in [1..MaxDocs -> UNION {StoredTx(i) : i \in 1..MaxDocs}
                                              \cup {NoDoc}] :
                             \A i \in 1..MaxDocs :
                                tx[i] # NoDoc => tx[i].id = i}
    /\ txNext = MaxDocs + 1
    /\ now = MaxClock
    /\ accepted = 0
    /\ req = [r \in Reqs |-> ReqIdle]
    /\ KAFKA_ENABLED = FALSE
    /\ phase = "serving"

NextList ==
    \/ \E r \in Serial : ListRequest(r)
    \/ \E r \in Serial : GetDatabase(r)
    \/ \E r \in Serial : StoreList(r)
    \/ \E r \in Serial : Respond(r)

SpecList == InitList /\ [][NextList]_vars

(***************************************************************************)
(* A restart: the process starts over a store that holds what an earlier   *)
(* run created through the API, a custodian and a transaction of it.       *)
(***************************************************************************)
EarlierRun ==
    [custodians |-> [i \in 1..MaxDocs |->
                        IF i = 1 THEN NewCustodian(1, "a", 0) ELSE NoDoc],
     custNext |-> 2,
     transactions |-> [i \in 1..MaxDocs |->
                          IF i = 1 THEN NewTransaction(1, 1, "a", 0) ELSE NoDoc],
     txNext |-> 2]

InitRestart ==
    /\ client = "None"
    /\ database = "None"
    /\ collections = {}
    /\ conn = ConnIdle
    /\ producer = [p \in Pubs |-> "free"]
    /\ kafka_service = "None"
    /\ kcall = [c \in KCallers |-> KIdle]
    /\ custodians = EarlierRun.custodians
    /\ custNext = EarlierRun.custNext
    /\ transactions = EarlierRun.transactions
    /\ txNext = EarlierRun.txNext
    /\ now = 0
    /\ accepted = 0
    /\ req = [r \in Reqs |-> ReqIdle]
    /\ KAFKA_ENABLED \in BOOLEAN
    /\ phase = "init"

SpecRestart == InitRestart /\ [][Next]_vars

(***************************************************************************)
(* Bus recovery: the process with the bus enabled, and a task that calls   *)
(* get_kafka_service while the process serves (the function is written as  *)
(* a request-time dependency; no endpoint declares it).                    *)
(***************************************************************************)
\* get_kafka_service called at request time
LateGetKafkaService(c) == phase = "serving" /\ get_kafka_service(c)

LateConnectReturn(c) == phase = "serving" /\ connect_return(c)

InitRecover == Init /\ KAFKA_ENABLED

NextRecover ==
    \/ StartupDbBegin
    \/ StartupDbStep
    \/ StartupKafkaBegin
    \/ StartupKafkaStep
    \/ StartupSeedClear
    \/ StartupSeedInsert
    \/ \E c \in Handler : LateGetKafkaService(c)
    \/ \E c \in Handler : LateConnectReturn(c)
    \/ \E r \in Serial : HttpRequest(r)
    \/ \E r \in Serial : GetDatabase(r)
    \/ \E r \in Serial : DbHealthPing(r)
    \/ \E r \in Serial : StoreInsert(r)
    \/ \E r \in Serial : StoreUpdate(r)
    \/ \E r \in Serial : StoreDelete(r)
    \/ \E r \in Serial : StoreFind(r)
    \/ \E r \in Serial : Respond(r)

SpecRecover == InitRecover /\ [][NextRecover]_vars

(***************************************************************************)
(* Racing updates: two concurrent tasks call update_custodian on the       *)
(* records of a store that holds one custodian.                            *)
(***************************************************************************)
InitRace ==
    /\ client = "obj"
    /\ database = "db"
    /\ collections = CollNames
    /\ conn = [owner |-> "startup", max_retries |-> DefaultMaxRetries,
               attempt |-> 1, fails |-> 0, status |-> "returned", err |-> "none"]
    /\ producer = [p \in Pubs |-> "free"]
    /\ kafka_service = "None"
    /\ kcall = [c \in KCallers |-> KIdle]
    /\ \E st \in StoresFound : custodians = st[1] /\ custNext = st[2]
    /\ transactions = EmptyColl
    /\ txNext = 1
    /\ now = 0
    /\ accepted = 0
    /\ req = [r \in Reqs |-> ReqIdle]
    /\ KAFKA_ENABLED = TRUE
    /\ phase = "nolifespan"

NextRace ==
    \/ \E r \in Reqs : UpdateRequest(r)
    \/ \E r \in Reqs : StoreUpdate(r)
    \/ \E r \in Reqs : StoreFind(r)
    \/ \E r \in Reqs : Respond(r)

SpecRace == InitRace /\ [][NextRace]_vars

(***************************************************************************)
(* First use of the two gateways: concurrent requests resolve get_database *)
(* in a process whose startup connected nothing, while two tasks call      *)
(* connect_to_kafka and get_kafka_service.                                 *)
(***************************************************************************)
NextFirstUse ==
    \/ \E r \in Reqs : GatewayRequest(r)
    \/ \E r \in Reqs : GetDatabase(r)
    \/ \E r \in Reqs : GetDatabaseConnect(r)
    \/ \E r \in Reqs : DbHealthPing(r)
    \/ \E r \in Reqs : StoreFind(r)
    \/ \E r \in Reqs : Respond(r)
    \/ \E c \in KCallers : connect_to_kafka(c)
    \/ \E c \in KCallers : get_kafka_service(c)
    \/ \E c \in KCallers : connect_return(c)

SpecFirstUse == InitConn /\ [][NextFirstUse]_vars

(***************************************************************************)
(* The publish wait: one caller at a time uses the domain service with a   *)
(* started publisher and the bus enabled.  The store answers every         *)
(* operation and the event loop resumes every handler whose await is over, *)
(* so these steps are fair.  The return of send_and_wait is the broker's   *)
(* doing: produce_event awaits it without asyncio.wait_for, KafkaService   *)
(* passes AIOKafkaProducer no timeout and Settings holds none, so no step  *)
(* of the program ends the wait and StoreSend carries no fairness.         *)
(***************************************************************************)
InitWait ==
    /\ client = "obj"
    /\ database = "db"
    /\ collections = CollNames
    /\ conn = [owner |-> "startup", max_retries |-> DefaultMaxRetries,
               attempt |-> 1, fails |-> 0, status |-> "returned", err |-> "none"]
    /\ producer = [p \in Pubs |-> IF p = "p1" THEN "started" ELSE "free"]
    /\ kafka_service = "p1"
    /\ kcall = [c \in KCallers |-> KIdle]
    /\ \E st \in StoresFound : custodians = st[1] /\ custNext = st[2]
    /\ transactions = EmptyColl
    /\ txNext = 1
    /\ now = 0
    /\ accepted = 0
    /\ req = [r \in Reqs |-> ReqIdle]
    /\ KAFKA_ENABLED = TRUE
    /\ phase = "nolifespan"

NextWait ==
    \/ \E r \in Serial : DirectRequest(r)
    \/ \E r \in Serial : StoreInsert(r)
    \/ \E r \in Serial : StoreUpdate(r)
    \/ \E r \in Serial : StoreDelete(r)
    \/ \E r \in Serial : StoreFind(r)
    \/ \E r \in Serial : StoreSend(r)
    \/ \E r \in Serial : Respond(r)

FairWait ==
    /\ WF_vars(\E r \in Serial : StoreInsert(r))
    /\ WF_vars(\E r \in Serial : StoreUpdate(r))
    /\ WF_vars(\E r \in Serial : StoreDelete(r))
    /\ WF_vars(\E r \in Serial : StoreFind(r))
    /\ WF_vars(\E r \in Serial : Respond(r))

SpecWait == InitWait /\ [][NextWait]_vars /\ FairWait

(***************************************************************************)
(* Properties                                                              *)
(***************************************************************************)
\* request r ran an operation that emits an event when it succeeds
EmitsOnSuccess(rec) ==
    /\ rec.ep \in Emitting
    /\ ~(rec.ep = "update_custodian" /\ rec.fields = {})

\* C1: with the bus enabled and the shared publisher started, every custodian
\* create, custodian update with a non-empty change-set and transaction
\* create that succeeds through the HTTP layer makes exactly one publish call,
\* to the custodian topic or, for a transaction, to the transaction topic.
C1_HttpWritePublishesOnce ==
    \A r \in Reqs :
        ( /\ req[r].via = "http"
          /\ req[r].pc = "done"
          /\ EmitsOnSuccess(req[r])
          /\ req[r].fetched
          /\ req[r].status = OkStatus(req[r].ep)
          /\ req[r].busReady )
        => /\ req[r].calls = 1
           /\ req[r].topic = Topic(req[r].ep)

\* C2: produce_event never raises: in each publisher state (no producer, a
\* producer that is not started, a started producer) and for each outcome of
\* the key encoding and of the send, the call returns normally and leaves the
\* producer field of every publisher as it was.
C2_ProduceEventNeverRaises ==
    [][\A c \in KCallers :
          (kcall'[c] # kcall[c] /\ kcall'[c].fn = "produce_event")
          => /\ kcall'[c].pc = "done"
             /\ kcall'[c].outcome = "returned"
             /\ producer' = producer]_vars

\* a produce_event call on a publisher whose producer is present but not
\* started has returned, another on a started producer whose send failed
C2_Witness ==
    /\ kcall["k1"].fn = "produce_event"
    /\ kcall["k1"].pre = "unstarted"
    /\ kcall["k1"].outcome = "returned"
    /\ kcall["main"].fn = "produce_event"
    /\ kcall["main"].pre = "started"
    /\ kcall["main"].value = "None"

\* C3: for create_custodian, update_custodian with a non-empty change-set and
\* create_transaction, once the write and the re-fetch succeeded the
\* operation's remaining steps leave both collections as they are, keep the
\* re-fetched record as the result and end with the success status, whether
\* no publisher was handed over, the bus is disabled or the publish failed.
C3_PublishFailureHarmless ==
    [][\A r \in Reqs :
          ( /\ req[r].pc \in {"find", "send"}
            /\ req'[r] # req[r]
            /\ EmitsOnSuccess(req'[r])
            /\ req'[r].wrote
            /\ req'[r].fetched )
          => /\ custodians' = custodians
             /\ transactions' = transactions
             /\ req'[r].ret # NoDoc
             /\ req'[r].ret = IF req[r].pc = "find" THEN Target(req[r])
                              ELSE req[r].ret
             /\ req'[r].pc \in {"send", "done"}
             /\ req'[r].pc = "done" => req'[r].status = OkStatus(req'[r].ep)]_vars

\* a custodian create whose publish failed has returned the stored record,
\* and an update without a publisher has returned its record
C3_Witness ==
    /\ KAFKA_ENABLED
    /\ \E r \in Reqs :
          /\ req[r].pc = "done"
          /\ req[r].ep = "create_custodian"
          /\ req[r].sent = "failed"
          /\ req[r].status = 201
          /\ req[r].ret = custodians[req[r].newid]
    /\ \E r \in Reqs :
          /\ req[r].pc = "done"
          /\ req[r].ep = "update_custodian"
          /\ req[r].ksvc = "None"
          /\ req[r].fetched
          /\ req[r].status = 200

\* C4: a publish call is made only by an operation whose write and re-fetch
\* both succeeded, and at most once; an emitting operation that ended without
\* both (the insert or update raised, the re-fetch raised or found nothing)
\* ended with an error or a not-found result and made no publish call.
C4_PersistThenEmit ==
    \A r \in Reqs :
        /\ (req[r].calls > 0 \/ req[r].pc = "send")
           => /\ req[r].wrote
              /\ req[r].fetched
              /\ req[r].calls = 1
        /\ ( /\ req[r].pc = "done"
             /\ EmitsOnSuccess(req[r])
             /\ ~(req[r].wrote /\ req[r].fetched) )
           => /\ req[r].calls = 0
              /\ req[r].sent = "none"
              /\ req[r].status \in {404, 500}
              /\ req[r].ret = NoDoc

\* with the bus enabled and a publisher handed over, one create delivered
\* its event and an update of an unknown identifier ended as not found
C4_Witness ==
    /\ KAFKA_ENABLED
    /\ \E r \in Reqs :
          /\ req[r].pc = "done"
          /\ req[r].calls = 1
          /\ req[r].sent = "delivered"
    /\ \E r \in Reqs :
          /\ req[r].pc = "done"
          /\ req[r].ep = "update_custodian"
          /\ req[r].ksvc # "None"
          /\ req[r].wrote
          /\ ~req[r].fetched
          /\ req[r].status = 404

\* C5: connect_to_mongodb makes at most max_retries attempts, one ping each;
\* it stops at the first successful ping and has then published the database
\* handle and the five collection handles; it raises a connection error only
\* when the last of the max_retries attempts failed, and when all max_retries
\* attempts (at least one) failed it has raised and pings no more.
C5_ConnectBounded ==
    /\ conn.attempt = 0 \/ conn.attempt <= conn.max_retries
    /\ conn.fails <= conn.attempt
    /\ conn.status = "ping" => conn.fails = conn.attempt - 1
    /\ (conn.status = "returned" /\ conn.attempt > 0)
       => /\ conn.fails = conn.attempt - 1
          /\ database = "db"
          /\ collections = CollNames
    /\ (conn.status = "raised" /\ conn.err = "connfail")
       => conn.fails = conn.max_retries
    /\ (conn.max_retries >= 1 /\ conn.fails = conn.max_retries)
       => conn.status = "raised"

\* a call with max_retries = 2 has raised after two failed pings
C5_Witness ==
    /\ conn.max_retries = 2
    /\ conn.fails = 2
    /\ conn.status = "raised"
    /\ database = "None"

\* C6: after a connect triggered by get_database exhausted its retries and
\* failed, with no connection ever established, the next request that calls
\* get_database attempts the connect again.
C6_RequestRetriesConnect ==
    \A r \in Reqs :
        (req[r].sawFailed /\ req[r].pc \notin {"idle", "getdb"}) => req[r].tried

\* C7: the startup aborts when its store connect raised, and whenever the
\* process serves or handles a request the startup connect has succeeded and
\* the database handle is published.
C7_FailFastStartup ==
    /\ (conn.owner = "startup" /\ conn.status = "raised") => phase = "aborted"
    /\ (phase = "serving" \/ \E r \in Reqs : req[r].pc # "idle")
       => /\ conn.owner = "startup"
          /\ conn.status = "returned"
          /\ database = "db"

\* the startup connect failed five times and the startup is aborted
C7_Witness ==
    /\ phase = "aborted"
    /\ conn.owner = "startup"
    /\ conn.fails = DefaultMaxRetries
    /\ \A r \in Reqs : req[r].pc = "idle"

\* the startup's connect_to_kafka call ended after its start() failed
KafkaStartupFailed ==
    /\ kcall["main"].fn = "connect_to_kafka"
    /\ kcall["main"].pc = "done"
    /\ kcall["main"].pub # "None"
    /\ kcall["main"].value = "None"

\* C8: a failure to start the publisher at startup does not abort the
\* startup: connect_to_kafka returns None and leaves the shared publisher
\* absent, only a store failure aborts, and the requests served afterwards
\* make no publish call.
C8_KafkaFailureNotFatal ==
    /\ phase = "aborted" => (conn.owner = "startup" /\ conn.status = "raised")
    /\ KafkaStartupFailed
       => /\ kcall["main"].outcome = "returned"
          /\ kafka_service = "None"
          /\ phase \in {"startup_seed", "startup_seed_insert", "serving"}
          /\ \A r \in Reqs : req[r].calls = 0

\* the publisher failed to start, the process serves and has created a
\* custodian
C8_Witness ==
    /\ KafkaStartupFailed
    /\ phase = "serving"
    /\ \E r \in Reqs :
          /\ req[r].pc = "done"
          /\ req[r].ep = "create_custodian"
          /\ req[r].status = 201

\* C9: while the enabled flag is false, connect_to_kafka and
\* get_kafka_service return None without constructing a publisher, the shared
\* publisher stays absent, and no operation of the domain service calls
\* produce_event, also when it was handed a publisher.
C9_DisabledBusSilent ==
    ~KAFKA_ENABLED
    => /\ kafka_service = "None"
       /\ \A c \in KCallers :
             kcall[c].fn \in {"connect_to_kafka", "get_kafka_service"}
             => /\ kcall[c].pc = "done"
                /\ kcall[c].outcome = "returned"
                /\ kcall[c].value = "None"
                /\ kcall[c].pub = "None"
       /\ \A r \in Reqs :
             /\ req[r].calls = 0
             /\ req[r].pc # "send"
             /\ req[r].sent = "none"

\* disabled: get_kafka_service has returned, and a create handed a started
\* publisher has succeeded
C9_Witness ==
    /\ ~KAFKA_ENABLED
    /\ kcall["k1"].fn = "get_kafka_service"
    /\ kcall["k1"].pc = "done"
    /\ \E r \in Reqs :
          /\ req[r].pc = "done"
          /\ req[r].ep = "create_custodian"
          /\ req[r].ksvc # "None"
          /\ producer[req[r].ksvc] = "started"
          /\ req[r].fetched
          /\ req[r].status = 201

\* C10: start() on a publisher whose producer is started changes nothing,
\* and every start() that returns normally leaves the publisher holding a
\* started producer, whatever start() and stop() calls came before.
C10_StartIdempotent ==
    [][\A c \in KCallers :
          ( /\ kcall'[c] # kcall[c]
            /\ kcall'[c].fn = "start"
            /\ kcall'[c].pc = "done"
            /\ kcall'[c].outcome = "returned" )
          => /\ producer'[kcall'[c].pub] = "started"
             /\ kcall'[c].pre = "started" => producer' = producer]_vars

\* C11: stop() on a publisher without a producer changes nothing; a stop()
\* that returns normally leaves the publisher without a producer; a start()
\* on a publisher without a producer constructs one and, when it returns
\* normally, has started it; after close_kafka_connection returned the shared
\* publisher is absent, and get_kafka_service called with the bus enabled and
\* no shared publisher constructs a new publisher and, when it returns one,
\* has started and published it.
C11_StopRestartable ==
    [][\A c \in KCallers :
          LET a == kcall[c]
              b == kcall'[c] IN
          b # a =>
            /\ (b.fn = "stop" /\ a.pc # "await_stop" /\ producer[b.pub] = "None")
               => (b.pc = "done" /\ b.outcome = "returned" /\ producer' = producer)
            /\ (b.fn = "stop" /\ b.pc = "done" /\ b.outcome = "returned")
               => producer'[b.pub] = "None"
            /\ (b.fn = "start" /\ a.pc # "await_start" /\ producer[b.pub] = "None")
               => (b.pc = "await_start" /\ producer'[b.pub] = "unstarted")
            /\ (b.fn = "start" /\ a.pc = "await_start" /\ b.outcome = "returned")
               => producer'[b.pub] = "started"
            /\ (b.fn = "close_kafka_connection" /\ b.pc = "done"
                /\ b.outcome = "returned")
               => kafka_service' = "None"
            /\ (b.fn = "get_kafka_service" /\ a.pc # "await_start"
                /\ KAFKA_ENABLED /\ kafka_service = "None")
               => /\ b.pc = "await_start"
                  /\ producer[b.pub] = "free"
                  /\ producer'[b.pub] = "unstarted"
                  /\ kafka_service' = b.pub
            /\ (b.fn = "get_kafka_service" /\ a.pc = "await_start"
                /\ b.value # "None")
               => /\ b.value = b.pub
                  /\ kafka_service' = b.pub
                  /\ producer'[b.pub] = "started"]_vars

\* a started producer was stopped by one caller and the same publisher then
\* started again by the other
C11_Witness ==
    /\ kcall["main"].fn = "stop"
    /\ kcall["main"].pc = "done"
    /\ kcall["main"].pre = "started"
    /\ kcall["main"].outcome = "returned"
    /\ kcall["k1"].fn = "start"
    /\ kcall["k1"].pc = "done"
    /\ kcall["k1"].pub = kcall["main"].pub
    /\ kcall["k1"].pre = "None"
    /\ kcall["k1"].outcome = "returned"
    /\ producer[kcall["k1"].pub] = "started"

\* C12: an update_custodian whose change-set is empty writes nothing (no
\* step of it changes a collection or reads the clock), makes no publish
\* call, and when it succeeds returns the record as it is stored.
C12_EmptyUpdateReadsOnly ==
    [][\A r \in Reqs :
          ( /\ req'[r] # req[r]
            /\ req'[r].ep = "update_custodian"
            /\ req'[r].fields = {} )
          => /\ custodians' = custodians
             /\ transactions' = transactions
             /\ now' = now
             /\ req'[r].pc \in {"find", "done"}
             /\ ~req'[r].wrote
             /\ req'[r].calls = 0
             /\ req'[r].sent = "none"
             /\ (req'[r].pc = "done" /\ req'[r].status = 200)
                => /\ req'[r].ret # NoDoc
                   /\ req'[r].ret = custodians'[req'[r].id]]_vars

\* with the bus enabled and a started publisher handed over, an update
\* without fields has returned a stored record
C12_Witness ==
    /\ KAFKA_ENABLED
    /\ \E r \in Reqs :
          /\ req[r].pc = "done"
          /\ req[r].ep = "update_custodian"
          /\ req[r].fields = {}
          /\ req[r].ksvc # "None"
          /\ producer[req[r].ksvc] = "started"
          /\ req[r].status = 200
          /\ req[r].ret = custodians[req[r].id]
          /\ req[r].ret # NoDoc

\* C13: the event of an update_custodian with at least one supplied field
\* lists in updated_fields exactly the field names the caller supplied.
C13_UpdatedFieldsExact ==
    \A r \in Reqs :
        ( /\ req[r].ep = "update_custodian"
          /\ req[r].fields # {}
          /\ req[r].calls > 0
          /\ req[r].sent = "delivered" )
        => req[r].evfields = req[r].fields

\* C14: when the update_one of an update_custodian with at least one
\* supplied field is applied to a stored record, and the update stamped a
\* time later than the updated_at the record held when the stamp was taken,
\* and no other operation in flight read the same time, the record's
\* updated_at after the write is strictly greater than before it, also when
\* two updates of the record interleave.
C14_UpdatedAtIncreases ==
    [][\A r \in Reqs :
          ( /\ req[r].pc = "update"
            /\ req'[r].pc = "find"
            /\ req[r].base >= 0
            /\ req[r].ts > req[r].base
            /\ \A q \in Reqs \ {r} : req[q].pc = "idle" \/ req[q].ts # req[r].ts
            /\ custodians[req[r].id] # NoDoc )
          => custodians'[req[r].id].updated_at
                > custodians[req[r].id].updated_at]_vars

\* the fields of a custodian document an update can supply
Updatable == {"name", "description", "contact_info", "api_credentials"}

\* C15: every step of an update_custodian leaves all other custodians and
\* all transactions as they are, and changes of the addressed record at most
\* the supplied fields and updated_at: its identifier, code, created_at and
\* every field not supplied keep their values, each supplied field takes the
\* supplied value and updated_at the time the update stamped.
C15_PartialUpdateFrame ==
    [][\A r \in Reqs :
          (req'[r] # req[r] /\ req[r].ep = "update_custodian" /\ req[r].pc # "done")
          => /\ transactions' = transactions
             /\ \A i \in 1..MaxDocs : i # req[r].id => custodians'[i] = custodians[i]
             /\ custNext' = custNext
             /\ LET old == custodians[req[r].id]
                    new == custodians'[req[r].id] IN
                IF old # NoDoc /\ req[r].pc = "update" /\ req'[r].pc = "find"
                THEN /\ new.id = old.id
                     /\ new.code = old.code
                     /\ new.created_at = old.created_at
                     /\ new.updated_at = req[r].ts
                     /\ \A f \in Updatable :
                           new[f] = IF f \in req[r].fields THEN req[r].val ELSE old[f]
                ELSE new = old]_vars

\* an update that supplied only the name has returned the stored record with
\* the new name and the old description
C15_Witness ==
    \E r \in Reqs :
        /\ req[r].pc = "done"
        /\ req[r].ep = "update_custodian"
        /\ req[r].fields = {"name"}
        /\ req[r].status = 200
        /\ req[r].ret = custodians[req[r].id]
        /\ req[r].ret.name = "b"
        /\ req[r].ret.description = "a"
        /\ req[r].ret.updated_at = req[r].ts

\* the operations on one custodian by identifier
ById == {"get_custodian", "update_custodian", "delete_custodian"}

\* the identifier is malformed, was never assigned, or its record is gone
Unresolved(id) == id = 0 \/ custodians[id] = NoDoc

\* C16: every step of a get, update or delete of a custodian whose
\* identifier resolves to no record (malformed, never assigned, or deleted
\* before) leaves the store as it is, and the request ends with 404.
C16_UnknownIdIs404 ==
    [][\A r \in Reqs :
          ( /\ req'[r] # req[r]
            /\ req'[r].ep \in ById
            /\ Unresolved(req'[r].id) )
          => /\ custodians' = custodians
             /\ transactions' = transactions
             /\ req'[r].pc = "done" => req'[r].status = 404]_vars

\* an update with a field, of an identifier that was assigned and whose
\* record is gone, ended with 404 after its update_one matched nothing
C16_Witness ==
    \E r \in Reqs :
        /\ req[r].pc = "done"
        /\ req[r].ep = "update_custodian"
        /\ req[r].fields # {}
        /\ req[r].id >= 1
        /\ req[r].id < custNext
        /\ custodians[req[r].id] = NoDoc
        /\ req[r].wrote
        /\ req[r].status = 404
        /\ accepted = 2

\* C17: a get, update or delete of a custodian during which the store
\* raised ends with 500.
C17_StoreErrorIs500 ==
    \A r \in Reqs :
        ( /\ req[r].pc = "done"
          /\ req[r].ep \in ById
          /\ req[r].storeErr )
        => req[r].status = 500

\* C18: a transaction listing whose from_date or to_date is a text that is
\* no ISO date ends with a client error (4xx) and returns no list.
C18_BadDateIsClientError ==
    \A r \in Reqs :
        ( /\ req[r].pc = "done"
          /\ req[r].ep = "get_transactions"
          /\ (req[r].from.kind = "bad" \/ req[r].to.kind = "bad") )
        => /\ req[r].status \in 400..499
           /\ req[r].list = {}

\* C19: every step of a delete_custodian leaves all transactions and all
\* other custodians as they are and makes no publish call; the step that
\* deletes removes the addressed record and nothing else.
C19_DeleteNoCascade ==
    [][\A r \in Reqs :
          (req'[r] # req[r] /\ req'[r].ep = "delete_custodian")
          => /\ transactions' = transactions
             /\ \A i \in 1..MaxDocs : i # req'[r].id => custodians'[i] = custodians[i]
             /\ req'[r].calls = 0
             /\ req'[r].pc # "send"
             /\ req'[r].sent = "none"
             /\ (req'[r].pc = "done" /\ req'[r].status = 204)
                => /\ custodians[req'[r].id] # NoDoc
                   /\ custodians'[req'[r].id] = NoDoc]_vars

\* with the bus enabled and a started publisher handed over, a custodian
\* was deleted while a transaction that references it is stored
C19_Witness ==
    /\ KAFKA_ENABLED
    /\ \E r \in Reqs :
          /\ req[r].pc = "done"
          /\ req[r].ep = "delete_custodian"
          /\ req[r].status = 204
          /\ req[r].ksvc # "None"
          /\ producer[req[r].ksvc] = "started"
          /\ custodians[req[r].id] = NoDoc
          /\ \E i \in 1..MaxDocs :
                /\ transactions[i] # NoDoc
                /\ transactions[i].custodian_id = req[r].id

\* C20: a transaction listing that succeeds returns exactly the stored
\* transactions whose custodian_id is the scoping identifier, whose
\* account_id and portfolio_id equal the narrowing identifiers that are
\* given, and whose trade_date lies within the given bounds, both inclusive;
\* a filter that is absent (or empty) excludes nothing.
C20_ListingExact ==
    \A r \in Reqs :
        ( /\ req[r].pc = "done"
          /\ req[r].ep = "get_transactions"
          /\ req[r].status = 200 )
        => req[r].list =
              {i \in 1..MaxDocs :
                  /\ transactions[i] # NoDoc
                  /\ transactions[i].custodian_id = req[r].id
                  /\ req[r].acc \in AccountIds
                     => transactions[i].account_id = req[r].acc
                  /\ req[r].port \in PortfolioIds
                     => transactions[i].portfolio_id = req[r].port
                  /\ req[r].from.kind = "iso"
                     => req[r].from.at <= transactions[i].trade_date
                  /\ req[r].to.kind = "iso"
                     => transactions[i].trade_date <= req[r].to.at}

\* a listing narrowed by account, portfolio and a one-day range returned a
\* transaction dated on both bounds and left out another of the custodian
C20_Witness ==
    \E r \in Reqs :
        /\ req[r].pc = "done"
        /\ req[r].ep = "get_transactions"
        /\ req[r].status = 200
        /\ req[r].acc = "a"
        /\ req[r].port = "b"
        /\ req[r].from = [kind |-> "iso", at |-> 1]
        /\ req[r].to = [kind |-> "iso", at |-> 1]
        /\ req[r].list # {}
        /\ \E i \in 1..MaxDocs :
              /\ i \notin req[r].list
              /\ transactions[i] # NoDoc
              /\ transactions[i].custodian_id = req[r].id

\* C21: GET / answers 200 with a body that is exactly {status: "healthy",
\* service: "custodian-service"} and no further field, whatever the state of
\* the store connection.
C21_HealthBodyExact ==
    \A r \in Reqs :
        (req[r].pc = "done" /\ req[r].ep = "health_check")
        => /\ req[r].status = 200
           /\ req[r].body = [status |-> "healthy", service |-> "custodian-service"]

\* C22: a create or update request eventually returns to its caller, also
\* when the broker never acknowledges the send: the wait inside the publish
\* step ends by itself after a finite, configured limit.
C22_PublishWaitBounded ==
    \A r \in Serial :
        (req[r].ep \in Emitting /\ req[r].pc \notin {"idle", "done"})
        ~> (req[r].pc = "done")

\* C23: get_database never yields an absent database handle: whenever a
\* handler was given its handle, also while another request's connect is in
\* progress or after a connect failed, the handle is the one a successful
\* connect published.
C23_HandleNeverAbsent ==
    \A r \in Reqs :
        req[r].db # "unset" => (req[r].db = "db" /\ database = "db")

\* the AsyncIOMotorClient objects the running (or last) connect_to_mongodb
\* call constructed: one per attempt
ClientsConstructed == conn.attempt

\* the KafkaService objects constructed so far
PublishersConstructed == {p \in Pubs : producer[p] # "free"}

\* C24: each shared handle is initialized once: in every interleaving of
\* concurrent first-use requests at most one store client and at most one
\* publisher are constructed, and a database handle or shared publisher
\* once published is never replaced by another.
C24_HandlesInitializedOnce ==
    [][/\ ClientsConstructed' <= 1
       /\ Cardinality(PublishersConstructed') <= 1
       /\ database # "None" => database' = database
       /\ (kafka_service # "None" /\ kafka_service' # "None")
          => kafka_service' = kafka_service]_vars

\* C25: last write wins per document: when two update_custodian calls on
\* the same stored record ran concurrently and both writes were applied, the
\* record is what applying the two partial writes one after the other, in
\* one of the two orders, makes of the record they found: a field both
\* supply holds the value of the write applied last, a field one supplies
\* holds that update's value, every other field is untouched, and
\* updated_at is the stamp of the write applied last.
C25_LastWriteWins ==
    \A r, q \in Reqs :
        ( /\ r # q
          /\ accepted = 2
          /\ req[r].ep = "update_custodian" /\ req[q].ep = "update_custodian"
          /\ req[r].id = req[q].id
          /\ req[r].wrote /\ req[q].wrote
          /\ custodians[req[r].id] # NoDoc )
        => LET doc == custodians[req[r].id]
               Then(x, y) ==
                   /\ doc.updated_at = y.ts
                   /\ \A f \in Updatable :
                         doc[f] = IF f \in y.fields THEN y.val
                                  ELSE IF f \in x.fields THEN x.val
                                  ELSE "a"
                   /\ doc.id = x.id
                   /\ doc.code = "a"
                   /\ doc.created_at = 0
           IN Then(req[r], req[q]) \/ Then(req[q], req[r])

\* two updates of one record that both supply the name, with different
\* values, have both returned: the name is the one written last, the
\* description the one only the other update supplied
C25_Witness ==
    /\ req["r1"].pc = "done" /\ req["r2"].pc = "done"
    /\ req["r1"].status = 200 /\ req["r2"].status = 200
    /\ req["r1"].id = req["r2"].id
    /\ req["r1"].fields = {"name"} /\ req["r1"].val = "b"
    /\ req["r2"].fields = {"name", "description"} /\ req["r2"].val = "c"
    /\ req["r1"].ts > req["r2"].ts
    /\ custodians[req["r1"].id].name = "b"
    /\ custodians[req["r1"].id].description = "c"
    /\ custodians[req["r1"].id].contact_info = "a"

\* C26: bus recovery: after the publisher failed to start at startup, every
\* later get_kafka_service call that finds the shared publisher absent
\* attempts the connection again; the call whose start() succeeds returns a
\* started publisher that is the shared one; and the custodian creates,
\* updates with a change and transaction creates that succeed after the
\* recovery emit their event (one publish call each).
C26_BusRecovers ==
    [][KafkaStartupFailed' =>
         /\ \A c \in Handler :
               LET a == kcall[c]
                   b == kcall'[c] IN
               /\ (b # a /\ b.fn = "get_kafka_service" /\ a.pc # "await_start"
                   /\ kafka_service = "None")
                  => (b.pc = "await_start" /\ kafka_service' = b.pub)
               /\ (b.fn = "get_kafka_service" /\ b.pc = "done" /\ b.value # "None")
                  => /\ kafka_service' = b.value
                     /\ producer'[b.value] = "started"
         /\ \A r \in Reqs :
               ( /\ req'[r].pc = "done"
                 /\ EmitsOnSuccess(req'[r])
                 /\ req'[r].fetched
                 /\ req'[r].status = OkStatus(req'[r].ep)
                 /\ req'[r].busReady )
               => req'[r].calls = 1]_vars

\* C27: connect_to_kafka and get_kafka_service never hand a caller a
\* publisher whose start() has not completed successfully: in every
\* interleaving of two concurrent first calls, a call that returns a
\* publisher returns one that holds a started producer and is the shared
\* publisher.
C27_ReturnedPublisherStarted ==
    [][\A c \in KCallers :
          ( /\ kcall'[c] # kcall[c]
            /\ kcall'[c].fn \in {"connect_to_kafka", "get_kafka_service"}
            /\ kcall'[c].pc = "done"
            /\ kcall'[c].value # "None" )
          => /\ producer'[kcall'[c].value] = "started"
             /\ kafka_service' = kcall'[c].value]_vars

\* C28: whenever connect_to_mongodb has returned normally, for every
\* max_retries including 0 and negative values, the shared database handle
\* and all five collection handles are set.
C28_ReturnImpliesConnected ==
    conn.status = "returned"
    => /\ database = "db"
       /\ collections = CollNames

\* the startup is over and its seeding step has run
Seeded == phase \in {"serving", "shutdown_wait", "stopped"}

=============================================================================
